---- MODULE Spec2Model ----
(***************************************************************************)
(* Model of examples/simple-chat/simple-chat.cpp: the session driver of    *)
(* main (read a line, render the chat template, extract the prompt, call   *)
(* generate, commit the assistant turn) and the generate lambda (tokenize, *)
(* then the decode / sample / classify / emit loop with its context,       *)
(* max-length, stall and anomaly stops).                                   *)
(*                                                                         *)
(* Text is a sequence of bytes, each byte a string.  The engine (decode,   *)
(* sampler, tokenizer, detokenizer, chat template) is the llama library:   *)
(* its results are inputs of the loop and are drawn from small sets.       *)
(***************************************************************************)
EXTENDS Integers, Sequences, FiniteSets, TLC

VARIABLES
    n_ctx,             \* llama_n_ctx(ctx): capacity of the context window
    n_predict,         \* -n: max tokens to predict per turn
    vocab,             \* token ids the sampler of the loaded model can return
    max_switch,        \* times the sampler may change token id within a turn
    stdin,             \* lines still to be read from standard input
    endless,           \* the lines of stdin repeat for ever
    pc,                \* position of the single thread of control
    exit_code,         \* -1 while running, else the process exit status
    notice,            \* last diagnostic written to stderr
    messages,          \* std::vector<llama_chat_message>
    formatted,         \* std::vector<char> formatted
    prev_len,          \* int prev_len
    new_len,           \* int new_len (main loop)
    prompt,            \* std::string prompt (main loop)
    seq_pos_max,       \* llama_memory_seq_pos_max(llama_get_memory(ctx), 0)
    is_first,          \* generate: const bool is_first
    ret,               \* generate: int ret, the result of llama_decode
    batch,             \* generate: llama_batch batch (its tokens)
    new_token_id,      \* generate: llama_token new_token_id
    last_token_id,     \* generate: llama_token last_token_id
    same_token_count,  \* generate: int same_token_count
    anomaly_count,     \* generate: int anomaly_count
    n_decoded,         \* generate: int n_decoded
    piece,             \* generate: std::string piece
    response,          \* generate: std::string response
    stop,              \* history: the conditions that ended the turn's loop
    sampled,           \* history: token ids sampled in this turn, in order
    printed,           \* history: bytes written to stdout by line 189 in this turn
    decode_calls,      \* history: llama_decode calls in this turn
    last_batch,        \* history: batch of the latest llama_decode call
    bos_requests,      \* history: is_first of every generate call of the session
    used_at_call,      \* history: context occupancy when generate was called
    n_switch           \* history: token changes of the sampler in this turn

vars == <<n_ctx, n_predict, vocab, max_switch, stdin, endless, pc, exit_code, notice, messages,
          formatted, prev_len, new_len, prompt, seq_pos_max, is_first, ret, batch,
          new_token_id, last_token_id, same_token_count, anomaly_count,
          n_decoded, piece, response, stop, sampled, printed, decode_calls,
          last_batch, bos_requests, used_at_call, n_switch>>

----------------------------------------------------------------------------
(* Bounds of the model *)

\* lines on standard input in a session
MaxLines == 2
\* times the sampler changes token id within one turn of the guard
\* specification
MaxSwitch == 1
\* capacity and max-predict values of the session specification
CtxSize == 12
MaxPredict == 3
\* capacity of the guard specification: a first prompt of five tokens and
\* the decodes before the sample that reaches the stall threshold
GuardCtx == 37

(* Program constants *)

StallThreshold == 32
AnomalyThreshold == 10
PieceBufSize == 256

----------------------------------------------------------------------------
(* Vocabulary of the loaded model *)

TOK_NONE == -1
TOK_BOS == 1
TOK_EOG == 2
TOK_LPAREN == 3
TOK_RPAREN == 4
TOK_AT == 5
TOK_O == 6
TOK_GO == 7
TOK_A == 8
TOK_HI == 9
TOK_EMPTY == 10
TOK_LONG == 11
TOK_PARENS == 12

\* the two bytes of U+00F3 in UTF-8
OAcute == <<"xC3", "xB3">>

\* display text of a token (special tokens rendered)
Piece(tok) ==
    CASE tok = TOK_BOS    -> <<"<s>">>
      [] tok = TOK_EOG    -> <<"</s>">>
      [] tok = TOK_LPAREN -> <<"(">>
      [] tok = TOK_RPAREN -> <<")">>
      [] tok = TOK_AT     -> <<"@">>
      [] tok = TOK_O      -> OAcute
      [] tok = TOK_GO     -> <<"g">> \o OAcute
      [] tok = TOK_A      -> <<"a">>
      [] tok = TOK_HI     -> <<"h", "i">>
      [] tok = TOK_EMPTY  -> <<>>
      [] tok = TOK_LONG   -> [i \in 1..(PieceBufSize + 1) |-> "x"]
      [] tok = TOK_PARENS -> <<"(", "(">>
      [] OTHER            -> <<"?">>

\* llama_vocab_is_eog
IsEog(tok) == tok = TOK_EOG

\* llama_token_to_piece(vocab, tok, buf, size, 0, true): bytes written, or
\* minus the needed size when the buffer is too small
TokenToPiece(tok, size) ==
    IF Len(Piece(tok)) > size THEN -Len(Piece(tok)) ELSE Len(Piece(tok))

\* byte-level token ids of prompt text
ByteAlphabet == <<"<u>", "<a>", "<e>", "h", "i", "a", "(", ")", "@", "g",
                  "xC3", "xB3", "x", "NUL">>
ByteTok(b) == 100 + (CHOOSE i \in 1..Len(ByteAlphabet) : ByteAlphabet[i] = b)

\* the tokens of a text: a leading beginning-of-sequence marker when add_special
Tokens(text, add_special) ==
    (IF add_special THEN <<TOK_BOS>> ELSE <<>>)
        \o [i \in 1..Len(text) |-> ByteTok(text[i])]

\* llama_tokenize(vocab, text, len, tokens, n_tokens_max, add_special, true):
\* the number of tokens, or minus that number when n_tokens_max is too small
LlamaTokenize(text, n_tokens_max, add_special) ==
    LET n == Len(Tokens(text, add_special))
    IN  IF n > n_tokens_max THEN -n ELSE n

----------------------------------------------------------------------------
(* Chat template *)

RECURSIVE RenderTurns(_)
RenderTurns(msgs) ==
    IF msgs = <<>> THEN <<>>
    ELSE LET m == msgs[Len(msgs)]
         IN  RenderTurns(SubSeq(msgs, 1, Len(msgs) - 1))
                 \o <<(IF m.role = "user" THEN "<u>" ELSE "<a>")>>
                 \o m.content \o <<"<e>">>

\* the rendered conversation, with the assistant-generation suffix when add_ass
FullRender(msgs, add_ass) ==
    RenderTurns(msgs) \o (IF add_ass THEN <<"<a>">> ELSE <<>>)

\* llama_chat_apply_template(tmpl, msgs, n, add_ass, buf, length): the
\* required length, negative when the template cannot be applied
ApplyTemplateLen(msgs, add_ass, ok) ==
    IF ok THEN Len(FullRender(msgs, add_ass)) ELSE -1

\* the buffer after the call: the render, cut to the buffer's size
ApplyTemplateBuf(msgs, add_ass, ok, buf) ==
    IF ~ok THEN buf
    ELSE LET full == FullRender(msgs, add_ass)
         IN  [i \in 1..Len(buf) |-> IF i <= Len(full) THEN full[i] ELSE buf[i]]

----------------------------------------------------------------------------
(* Helpers of the loops *)

\* context occupancy: highest occupied position + 1
Used == seq_pos_max + 1

\* the test of line 132 with >= for >
WouldOverflowAtCapacity(used, n_tokens, capacity) == used + n_tokens >= capacity

\* the test of line 132 without the size of the pending batch
WouldOverflowIgnoringBatch(used, n_tokens, capacity) == used > capacity

\* line 132: the pending batch does not fit
WouldOverflow(used, n_tokens, capacity) == used + n_tokens > capacity

\* lines 145-150, the run length after sampling tok
NextSameCount(tok, last, count) == IF tok = last THEN count + 1 ELSE 1

\* line 153 with the max-length test as n_decoded > n_predict
StopConditionsLateMax(tok, decoded, limit, same) ==
    (IF IsEog(tok) THEN {"eog"} ELSE {})
        \cup (IF decoded > limit THEN {"maxlen"} ELSE {})
        \cup (IF same >= StallThreshold THEN {"stall"} ELSE {})

\* line 153 with the stall test as same > 32
StopConditionsLateStall(tok, decoded, limit, same) ==
    (IF IsEog(tok) THEN {"eog"} ELSE {})
        \cup (IF decoded >= limit THEN {"maxlen"} ELSE {})
        \cup (IF same > StallThreshold THEN {"stall"} ELSE {})

\* line 153, the conditions that hold among the three of the break
StopConditions(tok, decoded, limit, same) ==
    (IF IsEog(tok) THEN {"eog"} ELSE {})
        \cup (IF decoded >= limit THEN {"maxlen"} ELSE {})
        \cup (IF same >= StallThreshold THEN {"stall"} ELSE {})

\* lines 166-177: the piece counts as anomalous output
IsSuspicious(p) ==
    IF Len(p) = 1
    THEN p[1] \in {"(", ")", "@"}
    ELSE p = OAcute \/ p = <<"g">> \o OAcute

\* lines 166-177
NextAnomalyCount(p, count) == IF IsSuspicious(p) THEN count + 1 ELSE 0

\* line 180 with > for >=
AnomalyStopLate(count) == count > AnomalyThreshold

\* line 180
AnomalyStop(count) == count >= AnomalyThreshold

\* std::vector<char>::resize: keeps the content, zero-fills the new tail
Resize(buf, n) ==
    [i \in 1..n |-> IF i <= Len(buf) THEN buf[i] ELSE "NUL"]

\* line 235 without the offset prev_len
RangeFromStart(buf, from, to) == SubSeq(buf, 1, to)

\* line 235, std::string(first + from, first + to)
Range(buf, from, to) == SubSeq(buf, from + 1, to)

\* line 225: the render does not fit the buffer
NeedsResize(len, size) == len > size

\* lines 229 and 245 with the test left out
RenderFailedNever(len) == FALSE

\* lines 229 and 245: the template reported a negative length
RenderFailed(len) == len < 0

\* line 223
UserMessage(text) == [role |-> "user", content |-> text]

\* line 243 with the role of line 223
AssistantMessageAsUser(text) == [role |-> "user", content |-> text]

\* line 243
AssistantMessage(text) == [role |-> "assistant", content |-> text]

\* line 244 with the generation suffix requested as in line 224
CommitLenWithSuffix(msgs, ok) == ApplyTemplateLen(msgs, TRUE, ok)

\* line 244: the length of the render without the generation suffix
CommitLen(msgs, ok) == ApplyTemplateLen(msgs, FALSE, ok)

\* line 191 with = for +=
AssignPiece(text, p) == p

\* line 191, response += piece
AppendPiece(text, p) == text \o p

----------------------------------------------------------------------------
(* Initial states *)

Lines == {<<"h">>, <<"h", "i">>}

RECURSIVE SeqsUpTo(_, _)
SeqsUpTo(S, n) ==
    IF n = 0 THEN {<<>>}
    ELSE LET shorter == SeqsUpTo(S, n - 1)
         IN  shorter \cup {Append(s, x) : s \in shorter, x \in S}

Vocabs == { {TOK_EOG, TOK_A, TOK_LPAREN},
            {TOK_EOG, TOK_HI, TOK_GO},
            {TOK_EOG, TOK_RPAREN, TOK_AT},
            {TOK_EOG, TOK_O, TOK_PARENS},
            {TOK_EOG, TOK_EMPTY, TOK_LONG} }

\* state after construction, lines 14-127 and 207-209, for a configuration
InitWith(ctx, predict, voc, switches, input, loop) ==
    /\ n_ctx = ctx
    /\ n_predict = predict
    /\ vocab = voc
    /\ max_switch = switches
    /\ stdin = input
    /\ endless = loop
    /\ pc = "read"
    /\ exit_code = -1
    /\ notice = ""
    /\ messages = <<>>
    /\ formatted = [i \in 1..ctx |-> "NUL"]
    /\ prev_len = 0
    /\ new_len = 0
    /\ prompt = <<>>
    /\ seq_pos_max = -1
    /\ is_first = FALSE
    /\ ret = 0
    /\ batch = <<>>
    /\ new_token_id = TOK_NONE
    /\ last_token_id = TOK_NONE
    /\ same_token_count = 0
    /\ anomaly_count = 0
    /\ n_decoded = 0
    /\ piece = <<>>
    /\ response = <<>>
    /\ stop = {}
    /\ sampled = <<>>
    /\ printed = <<>>
    /\ decode_calls = 0
    /\ last_batch = <<>>
    /\ bos_requests = <<>>
    /\ used_at_call = 0
    /\ n_switch = 0

\* sessions of several turns in a small context
Init ==
    \E predict \in 0..MaxPredict, voc \in Vocabs,
       input \in SeqsUpTo(Lines \cup {<<>>}, MaxLines) :
        InitWith(CtxSize, predict, voc, MaxPredict + 1, input, FALSE)

\* one turn long enough for the stall and anomaly guards
GuardInit ==
    \E predict \in {StallThreshold, StallThreshold + 1}, voc \in Vocabs,
       input \in {<<>>, << <<"h">> >>} :
        InitWith(GuardCtx, predict, voc, MaxSwitch, input, FALSE)

----------------------------------------------------------------------------
(* main, lines 210-249 *)

mainVars == <<messages, formatted, prev_len, new_len, prompt>>
genVars == <<is_first, batch, new_token_id, last_token_id, same_token_count,
             anomaly_count, n_decoded, piece, response>>
histVars == <<stop, sampled, printed, decode_calls, last_batch, bos_requests,
              used_at_call, n_switch>>
confVars == <<n_ctx, n_predict, vocab, max_switch, endless>>

\* the input left after a line was read
RestOfInput(input, loop) ==
    IF input = <<>> THEN <<>>
    ELSE IF loop THEN Append(Tail(input), Head(input)) ELSE Tail(input)

\* std::getline(std::cin, user): the next line, empty at end of input
GetLine(input) == IF input = <<>> THEN <<>> ELSE Head(input)

\* lines 212-218 with continue for break: an empty line is skipped
ReadEmptyContinues ==
    /\ pc = "read"
    /\ GetLine(stdin) = <<>>
    /\ stdin' = RestOfInput(stdin, endless)
    /\ UNCHANGED <<pc, exit_code, notice, seq_pos_max>>
    /\ UNCHANGED <<ret, confVars, mainVars, genVars, histVars>>

\* lines 212-218 and 251-259: an empty line (or end of input) ends the session
ReadEmpty ==
    /\ pc = "read"
    /\ GetLine(stdin) = <<>>
    /\ stdin' = RestOfInput(stdin, endless)
    /\ pc' = "exit"
    /\ exit_code' = 0
    /\ UNCHANGED <<notice, seq_pos_max>>
    /\ UNCHANGED <<ret, confVars, mainVars, genVars, histVars>>

\* lines 212-235: a line is read, appended as a user turn and rendered, and
\* the prompt is cut out of the buffer
ReadLine ==
    /\ pc = "read"
    /\ GetLine(stdin) # <<>>
    /\ \E ok \in BOOLEAN :
        LET user == GetLine(stdin)
            msgs == Append(messages, UserMessage(user))
            len1 == ApplyTemplateLen(msgs, TRUE, ok)
            buf1 == ApplyTemplateBuf(msgs, TRUE, ok, formatted)
            grow == NeedsResize(len1, Len(formatted))
            buf2 == IF grow
                    THEN ApplyTemplateBuf(msgs, TRUE, ok, Resize(buf1, len1))
                    ELSE buf1
            len2 == IF grow THEN ApplyTemplateLen(msgs, TRUE, ok) ELSE len1
        IN  /\ stdin' = RestOfInput(stdin, endless)
            /\ messages' = msgs
            /\ formatted' = buf2
            /\ new_len' = len2
            /\ IF RenderFailed(len2)
               THEN /\ pc' = "exit"
                    /\ exit_code' = 1
                    /\ notice' = "failed to apply the chat template"
                    /\ UNCHANGED prompt
               ELSE /\ pc' = "generate"
                    /\ prompt' = Range(buf2, prev_len, len2)
                    /\ UNCHANGED <<exit_code, notice>>
    /\ UNCHANGED <<prev_len, seq_pos_max>>
    /\ UNCHANGED <<ret, confVars, genVars, histVars>>

\* Commit, but the context is cleared when the turn is over
CommitClearsContext ==
    /\ pc = "commit"
    /\ \E ok \in BOOLEAN :
        LET msgs == Append(messages, AssistantMessage(response))
            len == CommitLen(msgs, ok)
        IN  /\ messages' = msgs
            /\ prev_len' = len
            /\ IF RenderFailed(len)
               THEN /\ pc' = "exit"
                    /\ exit_code' = 1
                    /\ notice' = "failed to apply the chat template"
               ELSE /\ pc' = "read"
                    /\ UNCHANGED <<exit_code, notice>>
    /\ seq_pos_max' = -1
    /\ UNCHANGED <<stdin, formatted, new_len, prompt>>
    /\ UNCHANGED <<ret, confVars, genVars, histVars>>

\* lines 240-248: the response is appended as an assistant turn and prev_len
\* becomes the length of the render without the generation suffix
Commit ==
    /\ pc = "commit"
    /\ \E ok \in BOOLEAN :
        LET msgs == Append(messages, AssistantMessage(response))
            len == CommitLen(msgs, ok)
        IN  /\ messages' = msgs
            /\ prev_len' = len
            /\ IF RenderFailed(len)
               THEN /\ pc' = "exit"
                    /\ exit_code' = 1
                    /\ notice' = "failed to apply the chat template"
               ELSE /\ pc' = "read"
                    /\ UNCHANGED <<exit_code, notice>>
    /\ UNCHANGED <<stdin, formatted, new_len, prompt, seq_pos_max>>
    /\ UNCHANGED <<ret, confVars, genVars, histVars>>

----------------------------------------------------------------------------
(* generate, lines 109-199 *)

\* line 112 with the flag always set
IsFirstAlways(pos_max) == TRUE

\* line 112: no position of sequence 0 is occupied
IsFirst(pos_max) == pos_max = -1

\* lines 109-127 with the four counters of lines 124-127 declared outside the
\* lambda, so that they keep their values from the previous call
GenerateInitKeepsCounters ==
    /\ pc = "generate"
    /\ LET first == IsFirst(seq_pos_max)
           n_prompt_tokens == -LlamaTokenize(prompt, 0, first)
           n_written == LlamaTokenize(prompt, n_prompt_tokens, first)
       IN  /\ is_first' = first
           /\ bos_requests' = Append(bos_requests, first)
           /\ used_at_call' = Used
           /\ IF n_written < 0
              THEN /\ pc' = "exit"
                   /\ exit_code' = 134
                   /\ notice' = "failed to tokenize the prompt"
                   /\ batch' = <<>>
              ELSE /\ pc' = "decode"
                   /\ batch' = Tokens(prompt, first)
                   /\ UNCHANGED <<exit_code, notice>>
    /\ response' = <<>>
    /\ new_token_id' = TOK_NONE
    /\ piece' = <<>>
    /\ stop' = {}
    /\ sampled' = <<>>
    /\ printed' = <<>>
    /\ decode_calls' = 0
    /\ last_batch' = <<>>
    /\ n_switch' = 0
    /\ UNCHANGED <<last_token_id, same_token_count, anomaly_count, n_decoded>>
    /\ UNCHANGED <<stdin, seq_pos_max>>
    /\ UNCHANGED <<ret, confVars, mainVars>>

\* lines 109-127: the prompt is tokenized and the turn's state is initialised
GenerateInit ==
    /\ pc = "generate"
    /\ LET first == IsFirst(seq_pos_max)
           n_prompt_tokens == -LlamaTokenize(prompt, 0, first)
           n_written == LlamaTokenize(prompt, n_prompt_tokens, first)
       IN  /\ is_first' = first
           /\ bos_requests' = Append(bos_requests, first)
           /\ used_at_call' = Used
           /\ IF n_written < 0
              THEN /\ pc' = "exit"
                   /\ exit_code' = 134
                   /\ notice' = "failed to tokenize the prompt"
                   /\ batch' = <<>>
              ELSE /\ pc' = "decode"
                   /\ batch' = Tokens(prompt, first)
                   /\ UNCHANGED <<exit_code, notice>>
    /\ response' = <<>>
    /\ new_token_id' = TOK_NONE
    /\ last_token_id' = TOK_NONE
    /\ same_token_count' = 0
    /\ anomaly_count' = 0
    /\ n_decoded' = 0
    /\ piece' = <<>>
    /\ stop' = {}
    /\ sampled' = <<>>
    /\ printed' = <<>>
    /\ decode_calls' = 0
    /\ last_batch' = <<>>
    /\ n_switch' = 0
    /\ UNCHANGED <<stdin, seq_pos_max>>
    /\ UNCHANGED <<ret, confVars, mainVars>>

\* lines 130-136: the batch does not fit, the process exits
ContextExceeded ==
    /\ pc = "decode"
    /\ WouldOverflow(Used, Len(batch), n_ctx)
    /\ pc' = "exit"
    /\ exit_code' = 0
    /\ notice' = "context size exceeded"
    /\ UNCHANGED <<stdin, seq_pos_max>>
    /\ UNCHANGED <<ret, confVars, mainVars, genVars, histVars>>

\* lines 130-141: the batch fits and llama_decode succeeds
Decode ==
    /\ pc = "decode"
    /\ ~WouldOverflow(Used, Len(batch), n_ctx)
    /\ seq_pos_max' = seq_pos_max + Len(batch)
    /\ decode_calls' = decode_calls + 1
    /\ last_batch' = batch
    /\ ret' = 0
    /\ pc' = "sample"
    /\ UNCHANGED <<stdin, exit_code, notice>>
    /\ UNCHANGED <<confVars, mainVars, genVars>>
    /\ UNCHANGED <<stop, sampled, printed, bos_requests, used_at_call, n_switch>>

\* the results of a failing llama_decode
DecodeErrors == {-1, 1}

\* lines 130-141 without the test of ret: the loop goes on to sample
DecodeFailIgnored ==
    /\ pc = "decode"
    /\ ~WouldOverflow(Used, Len(batch), n_ctx)
    /\ \E r \in DecodeErrors : ret' = r
    /\ decode_calls' = decode_calls + 1
    /\ last_batch' = batch
    /\ pc' = "sample"
    /\ UNCHANGED <<stdin, seq_pos_max, exit_code, notice>>
    /\ UNCHANGED <<confVars, mainVars, genVars>>
    /\ UNCHANGED <<stop, sampled, printed, bos_requests, used_at_call, n_switch>>

\* lines 130-141: the batch fits and llama_decode fails
DecodeFail ==
    /\ pc = "decode"
    /\ ~WouldOverflow(Used, Len(batch), n_ctx)
    /\ \E r \in DecodeErrors : ret' = r
    /\ decode_calls' = decode_calls + 1
    /\ last_batch' = batch
    /\ pc' = "exit"
    /\ exit_code' = 134
    /\ notice' = "failed to decode"
    /\ UNCHANGED <<stdin, seq_pos_max>>
    /\ UNCHANGED <<confVars, mainVars, genVars>>
    /\ UNCHANGED <<stop, sampled, printed, bos_requests, used_at_call, n_switch>>

\* lines 144-155: a token is sampled, the stall run is updated and the three
\* stop conditions are tested
Sample ==
    /\ pc = "sample"
    /\ \E tok \in vocab :
        /\ \/ IsEog(tok)
           \/ last_token_id = TOK_NONE
           \/ tok = last_token_id
           \/ n_switch < max_switch
        /\ LET same == NextSameCount(tok, last_token_id, same_token_count)
               why == StopConditions(tok, n_decoded, n_predict, same)
           IN  /\ new_token_id' = tok
               /\ same_token_count' = same
               /\ last_token_id' = tok
               /\ sampled' = Append(sampled, tok)
               /\ n_switch' = IF last_token_id # TOK_NONE /\ tok # last_token_id
                              THEN n_switch + 1 ELSE n_switch
               /\ stop' = why
               /\ pc' = IF why # {} THEN "commit" ELSE "piece"
    /\ UNCHANGED <<stdin, exit_code, notice, seq_pos_max>>
    /\ UNCHANGED <<ret, confVars, mainVars>>
    /\ UNCHANGED <<is_first, batch, anomaly_count, n_decoded, piece, response>>
    /\ UNCHANGED <<printed, decode_calls, last_batch, bos_requests, used_at_call>>

\* lines 158-163: the token is converted to its display text
Detokenize ==
    /\ pc = "piece"
    /\ LET n == TokenToPiece(new_token_id, PieceBufSize)
       IN  IF n < 0
           THEN /\ pc' = "exit"
                /\ exit_code' = 134
                /\ notice' = "failed to convert token to piece"
                /\ UNCHANGED piece
           ELSE /\ pc' = "classify"
                /\ piece' = SubSeq(Piece(new_token_id), 1, n)
                /\ UNCHANGED <<exit_code, notice>>
    /\ UNCHANGED <<stdin, seq_pos_max>>
    /\ UNCHANGED <<ret, confVars, mainVars, histVars>>
    /\ UNCHANGED <<is_first, batch, new_token_id, last_token_id,
                   same_token_count, anomaly_count, n_decoded, response>>

\* lines 165-187 with the anomaly stop ending the process like the other
\* fatal conditions
ClassifyFatalAnomaly ==
    /\ pc = "classify"
    /\ LET count == NextAnomalyCount(piece, anomaly_count)
       IN  /\ anomaly_count' = count
           /\ IF AnomalyStop(count)
              THEN /\ pc' = "exit"
                   /\ exit_code' = 1
                   /\ stop' = {"anomaly"}
              ELSE /\ pc' = "emit"
                   /\ UNCHANGED <<stop, exit_code>>
    /\ UNCHANGED <<stdin, notice, seq_pos_max>>
    /\ UNCHANGED <<ret, confVars, mainVars>>
    /\ UNCHANGED <<is_first, batch, new_token_id, last_token_id,
                   same_token_count, n_decoded, piece, response>>
    /\ UNCHANGED <<sampled, printed, decode_calls, last_batch, bos_requests, used_at_call,
                   n_switch>>

\* lines 165-187: the anomaly run is updated and tested
Classify ==
    /\ pc = "classify"
    /\ LET count == NextAnomalyCount(piece, anomaly_count)
       IN  /\ anomaly_count' = count
           /\ IF AnomalyStop(count)
              THEN /\ pc' = "commit"
                   /\ stop' = {"anomaly"}
              ELSE /\ pc' = "emit"
                   /\ UNCHANGED stop
    /\ UNCHANGED <<stdin, exit_code, notice, seq_pos_max>>
    /\ UNCHANGED <<ret, confVars, mainVars>>
    /\ UNCHANGED <<is_first, batch, new_token_id, last_token_id,
                   same_token_count, n_decoded, piece, response>>
    /\ UNCHANGED <<sampled, printed, decode_calls, last_batch, bos_requests, used_at_call,
                   n_switch>>

\* lines 189-195 without line 194: the batch stays what it was
EmitKeepsBatch ==
    /\ pc = "emit"
    /\ printed' = printed \o piece
    /\ response' = AppendPiece(response, piece)
    /\ n_decoded' = n_decoded + 1
    /\ pc' = "decode"
    /\ UNCHANGED <<stdin, exit_code, notice, seq_pos_max>>
    /\ UNCHANGED <<ret, confVars, mainVars>>
    /\ UNCHANGED <<is_first, batch, new_token_id, last_token_id,
                   same_token_count, anomaly_count, piece>>
    /\ UNCHANGED <<stop, sampled, decode_calls, last_batch, bos_requests, used_at_call,
                   n_switch>>

\* lines 189-195: the piece is printed and appended, the next batch is the
\* sampled token
Emit ==
    /\ pc = "emit"
    /\ printed' = printed \o piece
    /\ response' = AppendPiece(response, piece)
    /\ batch' = <<new_token_id>>
    /\ n_decoded' = n_decoded + 1
    /\ pc' = "decode"
    /\ UNCHANGED <<stdin, exit_code, notice, seq_pos_max>>
    /\ UNCHANGED <<ret, confVars, mainVars>>
    /\ UNCHANGED <<is_first, new_token_id, last_token_id, same_token_count,
                   anomaly_count, piece>>
    /\ UNCHANGED <<stop, sampled, decode_calls, last_batch, bos_requests, used_at_call,
                   n_switch>>

----------------------------------------------------------------------------

Next ==
    \/ ReadEmpty
    \/ ReadLine
    \/ GenerateInit
    \/ ContextExceeded
    \/ Decode
    \/ DecodeFail
    \/ Sample
    \/ Detokenize
    \/ Classify
    \/ Emit
    \/ Commit

Spec == Init /\ [][Next]_vars

GuardSpec == GuardInit /\ [][Next]_vars

\* the sessions of Init, those with a negative -n value and those whose
\* input never ends
FairInit ==
    \E predict \in (-1)..MaxPredict, voc \in Vocabs,
       input \in SeqsUpTo(Lines \cup {<<>>}, MaxLines), loop \in BOOLEAN :
        InitWith(CtxSize, predict, voc, MaxPredict + 1, input, loop)

\* the program is one thread that runs until the process ends: a step that
\* can be taken is taken (the input read returns, at the latest at end of
\* input, and every call into the engine returns)
FairSpec == FairInit /\ [][Next]_vars /\ WF_vars(Next)

----------------------------------------------------------------------------
(* Properties *)

Front(s) == SubSeq(s, 1, Len(s) - 1)

\* positions inside a generate call, and the return to main
InLoop == pc \in {"decode", "sample", "piece", "classify", "emit"}
InTurn == InLoop \/ pc = "commit"

\* C1: the overflow test precedes every decode call. At the top of the loop,
\* when used + b > capacity the process ends with exit status 0 and the
\* "context size exceeded" notice and llama_decode is not called for the batch;
\* when used + b <= capacity llama_decode is called with that batch. No decode
\* call happens anywhere else.
C1_OverflowBeforeDecode ==
    [][ /\ (pc = "decode" /\ Used + Len(batch) > n_ctx) =>
              /\ pc' = "exit"
              /\ exit_code' = 0
              /\ notice' = "context size exceeded"
              /\ decode_calls' = decode_calls
              /\ seq_pos_max' = seq_pos_max
        /\ (pc = "decode" /\ Used + Len(batch) <= n_ctx) =>
              /\ decode_calls' = decode_calls + 1
              /\ last_batch' = batch
        /\ decode_calls' > decode_calls =>
              pc = "decode" /\ Used + Len(batch) <= n_ctx
      ]_vars

\* the boundary used = capacity - b + 1: the process has ended, decode not called
C1_Witness ==
    /\ pc = "exit"
    /\ notice = "context size exceeded"
    /\ Used = n_ctx - Len(batch) + 1
    /\ last_batch # batch

\* C2: the context occupancy never exceeds the capacity.
C2_UsedWithinCapacity == 0 <= Used /\ Used <= n_ctx

\* the context is full after a decode in a second turn
C2_Witness ==
    /\ pc = "sample"
    /\ Used = n_ctx
    /\ Len(messages) = 3

\* length of the run of equal elements that ends a sequence
RECURSIVE TrailingRun(_)
TrailingRun(s) ==
    IF Len(s) <= 1 THEN Len(s)
    ELSE IF s[Len(s)] = s[Len(s) - 1] THEN 1 + TrailingRun(Front(s)) ELSE 1

AllSame(s) == \A i \in 1..Len(s) : s[i] = s[1]

\* the tokens whose display text is a single '(', ')' or '@' or one of the two
\* glyphs
SuspiciousTokens == {TOK_LPAREN, TOK_RPAREN, TOK_AT, TOK_O, TOK_GO}

\* C3: the stall guard. The run counter is the length of the run of equal
\* token ids that ends the sampled stream (a different id restarts it at 1);
\* the stall condition holds exactly when that run reaches 32 and never
\* earlier; when one non-end-of-generation id with a piece that is not
\* suspicious is sampled on every step and max_predict >= 32, 31 tokens are
\* emitted and the turn stops by the stall condition alone at the
\* 32nd sample.
C3_StallGuard ==
    (InTurn /\ sampled # <<>>) =>
        /\ same_token_count = TrailingRun(sampled)
        /\ TrailingRun(sampled) <= StallThreshold
        /\ ("stall" \in stop) <=> (TrailingRun(sampled) = StallThreshold)
        /\ TrailingRun(sampled) < StallThreshold /\ stop = {} => pc # "commit"
        /\ (/\ AllSame(sampled)
            /\ ~IsEog(sampled[1])
            /\ sampled[1] \notin SuspiciousTokens
            /\ n_predict >= StallThreshold) =>
              /\ Len(sampled) < StallThreshold => stop = {}
              /\ Len(sampled) = StallThreshold =>
                    /\ stop = {"stall"}
                    /\ pc = "commit"
                    /\ n_decoded = StallThreshold - 1

\* 32 samples of one token whose piece is not suspicious: stopped by the stall
C3_Witness ==
    /\ pc = "commit"
    /\ stop = {"stall"}
    /\ Len(sampled) = StallThreshold
    /\ AllSame(sampled)
    /\ sampled[1] = TOK_HI
    /\ n_decoded = StallThreshold - 1
    /\ n_predict >= StallThreshold

\* length of the run of suspicious tokens that ends a sequence
RECURSIVE TrailingSuspicious(_)
TrailingSuspicious(s) ==
    IF s = <<>> \/ s[Len(s)] \notin SuspiciousTokens THEN 0
    ELSE 1 + TrailingSuspicious(Front(s))

\* the sampled tokens that have passed the anomaly classification
Classified ==
    IF pc \in {"piece", "classify"} \/ (pc = "commit" /\ stop # {"anomaly"})
    THEN Front(sampled) ELSE sampled

\* C4: the anomaly guard. The anomaly counter is the length of the run of
\* suspicious pieces that ends the classified stream (a non-suspicious piece
\* resets it to 0); runs of up to 9 do not stop the turn, and the turn stops
\* with the anomaly condition exactly when the run reaches 10.
C4_AnomalyGuard ==
    InTurn =>
        /\ anomaly_count = TrailingSuspicious(Classified)
        /\ (stop = {"anomaly"}) <=>
              (pc = "commit" /\ TrailingSuspicious(Classified) = AnomalyThreshold)
        /\ stop # {"anomaly"} => TrailingSuspicious(Classified) < AnomalyThreshold
        /\ pc = "emit" => anomaly_count < AnomalyThreshold

\* a non-suspicious piece, nine suspicious pieces emitted, the tenth stops
C4_Witness ==
    /\ pc = "commit"
    /\ stop = {"anomaly"}
    /\ sampled = <<TOK_A>> \o [i \in 1..AnomalyThreshold |-> TOK_LPAREN]
    /\ n_decoded = AnomalyThreshold
    /\ anomaly_count = AnomalyThreshold

\* C5: the max-length stop. With max_predict = N >= 0 no turn emits more than
\* N tokens; the loop stops by the max-length condition exactly when N tokens
\* have been emitted and one more is sampled; a turn that returns without an
\* end-of-generation token, a stall or an anomaly stop has emitted exactly N.
C5_MaxLength ==
    InTurn =>
        /\ 0 <= n_decoded /\ n_decoded <= n_predict
        /\ "maxlen" \in stop =>
              /\ n_decoded = n_predict
              /\ Len(sampled) = n_predict + 1
        /\ (pc = "commit" /\ stop # {"anomaly"} /\ n_decoded = n_predict) =>
              "maxlen" \in stop
        /\ (pc = "commit" /\ stop \cap {"eog", "stall", "anomaly"} = {}) =>
              /\ stop = {"maxlen"}
              /\ n_decoded = n_predict
              /\ Len(sampled) = n_predict + 1

\* max_predict = 3, four samples without a repeat: three tokens emitted
C5_Witness ==
    /\ pc = "commit"
    /\ n_predict = 3
    /\ stop = {"maxlen"}
    /\ n_decoded = 3
    /\ Len(sampled) = 4
    /\ \A i \in 1..3 : sampled[i] # sampled[i + 1]
    /\ Len(response) = 3

\* the display text of a sequence of tokens, in order
RECURSIVE ConcatPieces(_)
ConcatPieces(toks) ==
    IF toks = <<>> THEN <<>>
    ELSE ConcatPieces(Front(toks)) \o Piece(toks[Len(toks)])

\* C6: when a turn has stopped, the response is the concatenation, in order,
\* of the display text of the tokens sampled before the token that triggered
\* the stop, n_decoded is the number of those tokens, and exactly that text
\* has been printed: the triggering token is neither appended nor printed.
C6_ResponseIsEmittedText ==
    /\ InTurn =>
          /\ response = ConcatPieces(SubSeq(sampled, 1, n_decoded))
          /\ printed = response
    /\ pc = "commit" =>
          /\ stop # {}
          /\ n_decoded = Len(sampled) - 1
          /\ response = ConcatPieces(Front(sampled))

\* two tokens and then end-of-generation: the text of the two tokens
C6_Witness ==
    /\ pc = "commit"
    /\ sampled = <<TOK_HI, TOK_GO, TOK_EOG>>
    /\ stop = {"eog"}
    /\ response = <<"h", "i", "g", "xC3", "xB3">>
    /\ n_decoded = 2

\* C7: every stop (end-of-generation, max-length, stall, anomaly) returns
\* to main with the process running and the response unchanged; main then
\* appends the response as an assistant turn and updates prev_len, and unless
\* the template render fails (exit status 1) it goes on to read the next line.
C7_StopsAreSuccessful ==
    [][ /\ (stop = {} /\ stop' # {}) =>
              /\ pc' = "commit"
              /\ exit_code' = -1
              /\ response' = response
        /\ pc = "commit" =>
              /\ messages' = Append(messages, [role |-> "assistant",
                                               content |-> response])
              /\ \/ /\ pc' = "read"
                    /\ exit_code' = -1
                    /\ prev_len' = Len(FullRender(messages', FALSE))
                 \/ /\ pc' = "exit"
                    /\ exit_code' = 1
                    /\ notice' = "failed to apply the chat template"
                    /\ prev_len' < 0
      ]_vars

\* after an anomaly stop the turn is committed and the next line is read
C7_Witness ==
    /\ pc = "read"
    /\ stop = {"anomaly"}
    /\ exit_code = -1
    /\ Len(messages) = 2
    /\ messages[2].role = "assistant"
    /\ Len(messages[2].content) = AnomalyThreshold - 1
    /\ prev_len = Len(FullRender(messages, FALSE))

\* C8: a commit that leaves the session running sets prev_len to the length
\* of the render, without generation suffix, of the conversation that ends
\* with the committed assistant turn; prev_len changes only there and never
\* decreases over the turns of a running session.
C8_PrevLenIsRenderLength ==
    [][ /\ (pc = "commit" /\ pc' = "read") =>
              /\ Len(messages') = Len(messages) + 1
              /\ messages'[Len(messages')].role = "assistant"
              /\ prev_len' = Len(FullRender(messages', FALSE))
              /\ prev_len' >= prev_len
        /\ prev_len' # prev_len => pc = "commit"
        /\ exit_code' = -1 => prev_len' >= prev_len
      ]_vars

\* two committed turns, prev_len is the length of the whole render
C8_Witness ==
    /\ pc = "read"
    /\ exit_code = -1
    /\ Len(messages) = 4
    /\ messages[4].content # <<>>
    /\ prev_len = Len(FullRender(messages, FALSE))
    /\ prev_len > Len(FullRender(SubSeq(messages, 1, 2), FALSE))

\* C9: when the prompt of a turn has been extracted, 0 <= prev_len <= new_len
\* for new_len the length of the render with the new user turn and the
\* generation suffix, the prompt is that render from prev_len to new_len, and
\* it is the text of the new user turn and the suffix alone: the render of
\* the turns up to the last committed assistant turn, followed by the prompt,
\* is the whole render.
C9_PromptIsRenderDiff ==
    pc = "generate" =>
        LET full == FullRender(messages, TRUE)
            len == Len(full)
            before == FullRender(Front(messages), FALSE)
        IN  /\ new_len = len
            /\ 0 <= prev_len /\ prev_len <= len
            /\ prompt = SubSeq(full, prev_len + 1, len)
            /\ prev_len = Len(before)
            /\ before \o prompt = full
            /\ prompt = <<"<u>">> \o messages[Len(messages)].content
                             \o <<"<e>", "<a>">>

\* a second turn whose render outgrew the buffer
C9_Witness ==
    /\ pc = "generate"
    /\ Len(messages) = 3
    /\ prev_len > 0
    /\ Len(formatted) > n_ctx
    /\ prompt = <<"<u>", "h", "i", "<e>", "<a>">>

\* C10: the turns alternate user, assistant, user, ... from a user turn; a
\* line is read with an even number of turns, and generate runs with a user
\* turn last.
C10_TurnsAlternate ==
    /\ \A i \in 1..Len(messages) :
          messages[i].role = IF i % 2 = 1 THEN "user" ELSE "assistant"
    /\ pc = "read" => Len(messages) % 2 = 0
    /\ (pc = "generate" \/ InTurn) =>
          /\ Len(messages) % 2 = 1
          /\ messages[Len(messages)].role = "user"

\* the second line is about to be answered
C10_Witness ==
    /\ pc = "generate"
    /\ Len(messages) = 3
    /\ messages[2].role = "assistant"
    /\ messages[3].role = "user"

\* C11: the generation state is fresh in every generate call. At the first
\* iteration of the loop last_token_id is none and the stall run, the anomaly
\* run and n_decoded are 0, whatever the previous turn left; in a turn the
\* stall run is the run that ends this turn's samples, the anomaly run and
\* n_decoded count only this turn's tokens, and n_decoded never exceeds
\* max_predict.
C11_StateFreshPerTurn ==
    /\ (pc = "decode" /\ decode_calls = 0) =>
          /\ last_token_id = TOK_NONE
          /\ same_token_count = 0
          /\ anomaly_count = 0
          /\ n_decoded = 0
          /\ response = <<>>
    /\ InTurn =>
          /\ sampled # <<>> => same_token_count = TrailingRun(sampled)
          /\ anomaly_count = TrailingSuspicious(Classified)
          /\ n_decoded <= Len(sampled)
          /\ n_decoded <= n_predict

\* the second turn starts with the token the first turn ended with (twice
\* '(' , the second one stopped by max_predict = 1): the runs restart at 1
C11_Witness ==
    /\ pc = "emit"
    /\ n_predict = 1
    /\ Len(messages) = 3
    /\ messages[2].content = <<"(">>
    /\ sampled = <<TOK_LPAREN>>
    /\ same_token_count = 1
    /\ anomaly_count = 1
    /\ n_decoded = 0

\* C12: the first-turn rule. A generate call requests the beginning-of-
\* sequence marker exactly when the context holds no token at the call, the
\* prompt batch starts with the marker exactly then, and over a session the
\* marker is requested in the first generate call and in no later one.
C12_BosOnFirstTurnOnly ==
    /\ \A i \in 1..Len(bos_requests) : bos_requests[i] <=> (i = 1)
    /\ (pc = "decode" /\ decode_calls = 0) =>
          /\ is_first <=> (Used = 0)
          /\ is_first <=> (Len(messages) = 1)
          /\ is_first = bos_requests[Len(bos_requests)]
          /\ batch # <<>>
          /\ (batch[1] = TOK_BOS) <=> is_first
          /\ Len(batch) = Len(prompt) + (IF is_first THEN 1 ELSE 0)

\* the second generate call: the context is occupied, no marker
C12_Witness ==
    /\ pc = "decode"
    /\ decode_calls = 0
    /\ bos_requests = <<TRUE, FALSE>>
    /\ Used > 0
    /\ ~is_first
    /\ batch[1] # TOK_BOS

\* C13: the session driver. Each iteration reads one line. An empty line
\* ends the session with exit status 0 and nothing else happens: no turn is
\* appended, the template is not rendered, generate is not called. A
\* non-empty line appends exactly one user turn with that line and, unless
\* its render fails, generate is called once for it: the generate calls of a
\* session are as many as its user turns.
C13_SessionDriver ==
    [][ /\ (pc = "read" /\ GetLine(stdin) = <<>>) =>
              /\ pc' = "exit"
              /\ exit_code' = 0
              /\ UNCHANGED <<messages, formatted, prev_len, new_len, prompt, notice,
                             bos_requests, used_at_call, decode_calls, seq_pos_max>>
        /\ (pc = "read" /\ GetLine(stdin) # <<>>) =>
              /\ stdin' = Tail(stdin)
              /\ messages' = Append(messages, [role |-> "user",
                                               content |-> Head(stdin)])
              /\ \/ pc' = "generate"
                 \/ pc' = "exit" /\ exit_code' = 1
              /\ bos_requests' = bos_requests
        /\ stdin' # stdin => pc = "read"
        /\ Len(bos_requests') # Len(bos_requests) =>
              /\ pc = "generate"
              /\ Len(bos_requests') = Len(bos_requests) + 1
              /\ Len(bos_requests') = (Len(messages) + 1) \div 2
        /\ (pc = "generate" /\ pc' # "generate") =>
              Len(bos_requests') = Len(bos_requests) + 1
      ]_vars

\* C13 as stated: every non-empty line appends one user turn and generate is
\* called for it (an empty line ends the session with status 0, untouched).
C13_AsStated ==
    [][ /\ (pc = "read" /\ GetLine(stdin) = <<>>) =>
              /\ pc' = "exit"
              /\ exit_code' = 0
              /\ UNCHANGED <<messages, formatted, prev_len, prompt, notice,
                             bos_requests, used_at_call, decode_calls, seq_pos_max>>
        /\ (pc = "read" /\ GetLine(stdin) # <<>>) =>
              /\ messages' = Append(messages, [role |-> "user",
                                               content |-> Head(stdin)])
              /\ pc' = "generate"
      ]_vars

\* one answered line, then an empty line: ended with status 0
C13_Witness ==
    /\ pc = "exit"
    /\ exit_code = 0
    /\ notice = ""
    /\ Len(messages) = 2
    /\ Len(bos_requests) = 1

\* C14: a negative template length ends the session with exit status 1. The
\* process has exit status 1 exactly when the render of the new user turn
\* (new_len) or the render after the commit (prev_len) was negative. In the
\* first case generate was not called for that turn and no assistant turn
\* follows the user turn; in the second no further line is read; the process
\* takes no step after it has ended.
C14_TemplateFailureIsFatal ==
    [][ /\ (new_len' < 0 \/ prev_len' < 0) <=> exit_code' = 1
        /\ exit_code' = 1 =>
              /\ pc' = "exit"
              /\ notice' = "failed to apply the chat template"
        /\ new_len' < 0 =>
              /\ Len(messages') % 2 = 1
              /\ messages'[Len(messages')].role = "user"
              /\ Len(bos_requests') = (Len(messages') - 1) \div 2
        /\ prev_len' < 0 =>
              /\ Len(messages') % 2 = 0
              /\ Len(bos_requests') = Len(messages') \div 2
        /\ pc = "exit" => UNCHANGED vars
      ]_vars

\* the render after the first commit failed with a line still unread
C14_Witness ==
    /\ pc = "exit"
    /\ exit_code = 1
    /\ prev_len < 0
    /\ Len(messages) = 2
    /\ stdin # <<>>
    /\ Head(stdin) # <<>>

\* C15: a failed decode aborts the process at once. When llama_decode
\* returns non-zero the process ends abnormally in that step with the decode
\* diagnostic, and nothing happens after it: no token is sampled, nothing is
\* printed or appended to the response, no assistant turn is committed, no
\* line is read. Tokens are only sampled after a decode that returned 0.
C15_DecodeFailureAborts ==
    [][ /\ ret' # 0 =>
              /\ pc' = "exit"
              /\ exit_code' = 134
              /\ notice' = "failed to decode"
        /\ (ret' # 0 \/ pc = "exit") =>
              UNCHANGED <<sampled, new_token_id, printed, response, n_decoded,
                          messages, prev_len, stdin, seq_pos_max>>
        /\ Len(sampled') > Len(sampled) => (ret = 0 /\ pc = "sample")
        /\ pc = "exit" => UNCHANGED vars
      ]_vars

\* the decode of an emitted token failed in the second turn
C15_Witness ==
    /\ pc = "exit"
    /\ exit_code = 134
    /\ notice = "failed to decode"
    /\ ret # 0
    /\ Len(messages) = 3
    /\ Len(sampled) = 1
    /\ batch = sampled
    /\ response # <<>>

Max(a, b) == IF a >= b THEN a ELSE b

\* C16: every generate call terminates. A call makes at most
\* max(max_predict, 0) + 1 decode calls, and once started it reaches the
\* return to main (one of the four stops) or the end of the process.
C16_GenerateTerminates ==
    /\ [](decode_calls <= Max(n_predict, 0) + 1)
    /\ [](pc = "commit" => stop # {})
    /\ (pc = "generate") ~> (pc \in {"commit", "exit"})

\* a turn that used all its decode calls: max_predict + 1 = 4
C16_Witness ==
    /\ pc = "commit"
    /\ n_predict = 3
    /\ decode_calls = 4
    /\ stop = {"maxlen"}

\* C17: the batches of a turn. The first decode call of a turn receives the
\* whole tokenized prompt; every later one receives exactly one token, the
\* token sampled last, which has been emitted; decode calls and samples
\* alternate, starting with a decode: a decode is called when every earlier
\* one has been followed by its sample, and a token is sampled only after a
\* decode that no sample has followed yet.
C17_BatchPerDecode ==
    [][ /\ decode_calls' = decode_calls + 1 =>
              /\ Len(sampled) = decode_calls
              /\ last_batch' = batch
              /\ decode_calls = 0 =>
                    /\ last_batch' = Tokens(prompt, is_first)
                    /\ Len(last_batch') >= Len(prompt)
              /\ decode_calls > 0 =>
                    /\ last_batch' = <<sampled[Len(sampled)]>>
                    /\ last_batch' = <<new_token_id>>
                    /\ n_decoded = Len(sampled)
                    /\ response = ConcatPieces(sampled)
                    /\ printed = response
        /\ Len(sampled') = Len(sampled) + 1 =>
              /\ decode_calls = Len(sampled) + 1
              /\ decode_calls' = decode_calls
      ]_vars

\* the second decode of a turn has received the token just emitted
C17_Witness ==
    /\ pc = "sample"
    /\ decode_calls = 2
    /\ sampled = <<TOK_HI>>
    /\ last_batch = <<TOK_HI>>
    /\ printed = <<"h", "i">>
    /\ Len(messages) = 3

\* C18: the context accounting of a turn. Inside a generate call the
\* occupancy is the occupancy at the call plus the decoded tokens: the P
\* tokens of the prompt and one per later decode call. When the call returns
\* with k emitted tokens the occupancy has grown by exactly P + k: each
\* emitted token was decoded in a call of its own, and the token that
\* triggered the stop, the last one sampled, was not decoded.
C18_ContextAccounting ==
    InTurn =>
        LET P == Len(Tokens(prompt, is_first))
        IN  /\ P = Len(prompt) + (IF is_first THEN 1 ELSE 0)
            /\ Used = used_at_call
                        + (IF decode_calls = 0 THEN 0 ELSE P + decode_calls - 1)
            /\ pc = "commit" =>
                  /\ Used = used_at_call + P + n_decoded
                  /\ decode_calls = n_decoded + 1
                  /\ Len(sampled) = n_decoded + 1
                  /\ last_batch = IF n_decoded = 0 THEN Tokens(prompt, is_first)
                                  ELSE <<sampled[n_decoded]>>

\* the second turn returns after two tokens: 4 + 2 positions more
C18_Witness ==
    /\ pc = "commit"
    /\ Len(messages) = 3
    /\ used_at_call > 0
    /\ n_decoded = 2
    /\ Len(prompt) = 4
    /\ Used = used_at_call + 6
    /\ sampled[2] # sampled[3]

\* the user never enters an empty line: the input repeats for ever and none
\* of its lines is empty
NeverEmptyLine ==
    /\ endless
    /\ stdin # <<>>
    /\ \A i \in 1..Len(stdin) : stdin[i] # <<>>

\* the notices of the failed engine calls
FailureNotices ==
    {"failed to apply the chat template", "failed to tokenize the prompt",
     "failed to decode", "failed to convert token to piece"}

\* the turns that were committed
TurnsDone == Len(messages) \div 2

\* C19: the context occupancy never decreases during the session, and every
\* committed turn has occupied at least one position, so at most n_ctx turns
\* are committed. The process always ends; when the user never enters an
\* empty line it never ends with the normal exit, and when in addition no
\* engine call fails it ends with the "context size exceeded" exit.
C19_SessionExhaustsContext ==
    /\ [][seq_pos_max' >= seq_pos_max]_vars
    /\ [](pc = "commit" => Used > used_at_call)
    /\ [](TurnsDone <= Used /\ Used <= n_ctx)
    /\ <>(pc = "exit")
    /\ [](NeverEmptyLine /\ pc = "exit" =>
            /\ notice # ""
            /\ notice \notin FailureNotices =>
                  /\ notice = "context size exceeded"
                  /\ exit_code = 0
                  /\ TurnsDone <= n_ctx)

\* a one-line input that repeats: the third turn exceeds the context
C19_Witness ==
    /\ NeverEmptyLine
    /\ Len(stdin) = 1
    /\ pc = "exit"
    /\ notice = "context size exceeded"
    /\ TurnsDone = 2
    /\ Len(messages) = 5

\* the tokens emitted so far in the turn: those printed and appended to the
\* response
Emitted == SubSeq(sampled, 1, n_decoded)

\* a sequence holds a run of n equal elements
HasRun(s, n) ==
    \E i \in 1..(Len(s) - n + 1) : AllSame(SubSeq(s, i, i + n - 1))

\* a sequence holds a run of n suspicious tokens
HasSuspiciousRun(s, n) ==
    \E i \in 1..(Len(s) - n + 1) :
        \A j \in i..(i + n - 1) : s[j] \in SuspiciousTokens

\* C20: the output guarantee of the two guards. In every state of a turn the
\* emitted tokens hold no run of 32 equal token ids and no run of 10
\* suspicious pieces, and whenever a piece is about to be appended to the
\* response the run counter is at most 31 and the anomaly counter at most 9.
C20_GuardedOutput ==
    InTurn =>
        /\ ~HasRun(Emitted, StallThreshold)
        /\ TrailingRun(Emitted) <= StallThreshold - 1
        /\ ~HasSuspiciousRun(Emitted, AnomalyThreshold)
        /\ TrailingSuspicious(Emitted) <= AnomalyThreshold - 1
        /\ pc = "emit" =>
              /\ same_token_count <= StallThreshold - 1
              /\ anomaly_count <= AnomalyThreshold - 1
              /\ same_token_count = TrailingRun(Append(Emitted, new_token_id))
              /\ anomaly_count = TrailingSuspicious(Append(Emitted, new_token_id))

\* the 31st token of a run is about to be emitted after a different first one
C20_Witness ==
    /\ pc = "emit"
    /\ same_token_count = StallThreshold - 1
    /\ n_decoded = StallThreshold - 1
    /\ sampled[1] # sampled[2]
    /\ Len(Emitted) >= StallThreshold - 1

====
